---- MODULE Spec2Model ----
(***************************************************************************)
(* Model of src/hytale-server-installer.cjs: the module's top level (log   *)
(* reset, platform resolution, configuration load), the helpers, and the   *)
(* main async function that installs and launches the server.              *)
(*                                                                         *)
(* Modelling conventions.                                                   *)
(*  - A JavaScript value is a record [t, v]: t is its typeof-like tag and   *)
(*    v its content (the text of a primitive, the properties of an object, *)
(*    the elements of an array).                                           *)
(*  - A JSON text is a sequence of lexical tokens [k, s].                   *)
(*  - An absolute path is the sequence of its components; <<>> is the root. *)
(*  - A path string handed to deleteDirs is a record [root, comps, trail]:  *)
(*    its root prefix as written, its components, and whether it ends with  *)
(*    a separator.  Two path strings are === exactly when the records are   *)
(*    equal.                                                                *)
(*  - RUNTIME_DIR is /srv.  Run from source, the current working directory  *)
(*    is RUNTIME_DIR; a packaged build may be started from another one.     *)
(*  - The operating system may refuse an operation on a path: `os` names    *)
(*    the paths it refuses to remove (stuck) and those it denies access to  *)
(*    (denied).  A file marked `locked` can be neither read, written nor   *)
(*    removed.                                                             *)
(***************************************************************************)
EXTENDS Naturals, Integers, Sequences, FiniteSets, TLC

VARIABLES
  platform,      \* os.platform()
  cwd,           \* process.cwd()
  pc,            \* position of the module top level / main async function
  DOWNLOADER_EXE,\* resolved executable name, "null" before/without resolution
  config,        \* the loaded configuration object (key -> JS value)
  logFile,       \* installer.log: [exists, lines, locked], and under `console`
                 \* what writeLog and the log reset printed
  configFile,    \* installer-config.json: [exists, toks, locked]
  fs,            \* every other node of the file system: path -> content
  mtime,         \* modification time of the zips of RUNTIME_DIR
  requests,      \* number of HTTPS GET requests issued
  handlers,      \* TRUE once the uncaughtException/unhandledRejection handlers are installed
  promise,       \* state of the promise runDownloader returns
  settled,       \* number of times that promise changed state
  childEvents,   \* events the downloader child process has emitted
  downloadedZip, \* what findNewestZip returned, <<>> before
  archive,       \* file paths of the archive unzipAll extracted into RUNTIME_DIR
  javaOut,       \* what exec reported for `java -version`
  started,       \* the steps of main started so far, in order
  fatal,         \* message of the fatal error raised, "" when none
  exited,        \* TRUE once the process has terminated
  exitCode,      \* its exit code
  serverSpawned, \* TRUE once the java server process was spawned
  dirsArg,       \* deleteDirs under test: the remaining list of path strings
  loads          \* loadConfig under test: results of the loads so far

vars == <<platform, cwd, pc, DOWNLOADER_EXE, config, logFile, configFile, fs, mtime,
          requests, handlers, promise, settled, childEvents,
          downloadedZip, archive, javaOut, started, fatal, exited, exitCode,
          serverSpawned, dirsArg, loads>>

(***************************************************************************)
(* Bounds of the model.                                                    *)
(***************************************************************************)
MaxTime == 2
MaxDepth == 3
MaxFiles == 1
MaxDirs == 2
MaxLoads == 2

(***************************************************************************)
(* JavaScript values and JSON.                                             *)
(***************************************************************************)
JsBool(b) == [t |-> "boolean", v |-> IF b THEN "true" ELSE "false"]
JsStr(s) == [t |-> "string", v |-> s]

\* A number is kept as the text Number.prototype.toString gives it, with "-0"
\* for the negative zero.
JsNum(s) == [t |-> "number", v |-> s]
JsNull == [t |-> "null", v |-> "null"]

\* An object is its own properties (key -> value), an array its elements.
JsObj(f) == [t |-> "object", v |-> f]
JsArr(s) == [t |-> "array", v |-> s]

\* ToBoolean, as applied by `!config.startServer` and `if (config.cleanUp)`.
Truthy(x) ==
  CASE x.t = "boolean" -> x.v = "true"
    [] x.t = "string" -> x.v # ""
    [] x.t = "number" -> x.v \notin {"0", "-0", "NaN"}
    [] x.t \in {"object", "array"} -> TRUE
    [] OTHER -> FALSE

ConfigKeys == <<"startServer", "cleanUp", "downloaderArgs", "javaArgs", "hytaleArgs">>

DEFAULT_CONFIG ==
  [startServer |-> JsBool(TRUE),
   cleanUp |-> JsBool(TRUE),
   downloaderArgs |-> JsStr(""),
   javaArgs |-> JsStr("-Xms2G -Xmx4G -XX:AOTCache=HytaleServer.aot"),
   hytaleArgs |-> JsStr("--assets Assets.zip --bind 5520")]

Digits == {"0", "1", "2", "3", "4", "5", "6", "7", "8", "9"}
DigitVal(c) ==
  CASE c = "0" -> 0 [] c = "1" -> 1 [] c = "2" -> 2 [] c = "3" -> 3 [] c = "4" -> 4
    [] c = "5" -> 5 [] c = "6" -> 6 [] c = "7" -> 7 [] c = "8" -> 8 [] c = "9" -> 9
DigitStr(n) == CHOOSE c \in Digits : DigitVal(c) = n

\* The character of the string s at position i (from 1), "" outside the string.
Ch(s, i) == IF i >= 1 /\ i <= Len(s) THEN SubSeq(s, i, i) ELSE ""

\* String(n) for a natural number n.
RECURSIVE NatStr(_)
NatStr(n) == IF n < 10 THEN DigitStr(n) ELSE NatStr(n \div 10) \o DigitStr(n % 10)

RECURSIVE Zeros(_)
Zeros(n) == IF n <= 0 THEN "" ELSE "0" \o Zeros(n - 1)

\* The first position from i on that holds no digit.
DigitsEnd(s, i) ==
  CHOOSE j \in i..(IF i > Len(s) THEN i ELSE Len(s) + 1) :
    Ch(s, j) \notin Digits /\ \A k \in i..(j - 1) : Ch(s, k) \in Digits

\* The number of zeros s starts with, counted from position i.
LeadingZeros(s, i) ==
  CHOOSE n \in 0..(IF i > Len(s) THEN 0 ELSE Len(s) - i + 1) :
    Ch(s, i + n) # "0" /\ \A k \in i..(i + n - 1) : Ch(s, k) = "0"

StripTrailingZeros(s) ==
  SubSeq(s, 1, CHOOSE n \in 0..Len(s) :
                 Ch(s, n) # "0" /\ \A k \in (n + 1)..Len(s) : Ch(s, k) = "0")

\* The value of a digit string as an exponent; four digits and more stand for an
\* exponent beyond the range of a double.
RECURSIVE DigitsValue(_, _, _)
DigitsValue(s, i, acc) ==
  IF i > Len(s) THEN acc ELSE DigitsValue(s, i + 1, 10 * acc + DigitVal(Ch(s, i)))

\* The parts of a JSON number literal: -? int (. frac)? ((e|E) (+|-)? exp)?
\* i0..i1-1 is the integer part, f1 the position after the fraction, e0..e1-1
\* the digits of the exponent.
NumExp(s, neg, i0, i1, f1, e0) ==
  [neg |-> neg,
   int |-> SubSeq(s, i0, i1 - 1),
   hasFrac |-> Ch(s, i1) = ".",
   frac |-> SubSeq(s, i1 + 1, f1 - 1),
   hasExp |-> Ch(s, f1) \in {"e", "E"},
   expNeg |-> Ch(s, f1) \in {"e", "E"} /\ Ch(s, f1 + 1) = "-",
   exp |-> IF Ch(s, f1) \in {"e", "E"} THEN SubSeq(s, e0, DigitsEnd(s, e0) - 1) ELSE "",
   end |-> IF Ch(s, f1) \in {"e", "E"} THEN DigitsEnd(s, e0) ELSE f1]
NumFrac(s, neg, i0, i1, f1) ==
  NumExp(s, neg, i0, i1, f1, IF Ch(s, f1 + 1) \in {"+", "-"} THEN f1 + 2 ELSE f1 + 1)
NumInt(s, neg, i0, i1) ==
  NumFrac(s, neg, i0, i1, IF Ch(s, i1) = "." THEN DigitsEnd(s, i1 + 1) ELSE i1)
NumParts(s) ==
  NumInt(s, Ch(s, 1) = "-", IF Ch(s, 1) = "-" THEN 2 ELSE 1,
         DigitsEnd(s, IF Ch(s, 1) = "-" THEN 2 ELSE 1))

\* Number.prototype.toString for the value 0.ds * 10^n, ds a digit string of
\* length k >= 1 without leading or trailing zero.
NumberToString(neg, ds, n) ==
  LET k == Len(ds)
      e == n - 1
      body ==
        IF k <= n /\ n <= 21 THEN ds \o Zeros(n - k)
        ELSE IF 0 < n /\ n <= 21 THEN SubSeq(ds, 1, n) \o "." \o SubSeq(ds, n + 1, k)
        ELSE IF -6 < n /\ n <= 0 THEN "0." \o Zeros(-n) \o ds
        ELSE (IF k = 1 THEN ds ELSE Ch(ds, 1) \o "." \o SubSeq(ds, 2, k))
             \o "e" \o (IF e < 0 THEN "-" \o NatStr(-e) ELSE "+" \o NatStr(e))
  IN (IF neg THEN "-" ELSE "") \o body

\* Binary floating point, in decimal.  JSON.parse gives a number literal the
\* double nearest to it (ties to the even significand), and
\* Number.prototype.toString prints the shortest digits that denote that double.
\* A non-negative decimal number is [d, p]: its digits and how many of them
\* stand before the point; it has no leading zero before the point and no
\* trailing zero after it.
Decimal(d, p) == [d |-> d, p |-> p]

IntPart(x) == SubSeq(x.d, 1, x.p)

\* Drops the one leading and the one trailing zero an operation may have added.
Trim1(x) ==
  LET n == Len(x.d)
      lead == IF x.p > 0 /\ x.d[1] = 0 THEN 1 ELSE 0
      trail == IF n > x.p /\ x.d[n] = 0 THEN 1 ELSE 0
  IN Decimal(SubSeq(x.d, 1 + lead, n - trail), x.p - lead)

\* 2x: each digit doubles and takes the carry of the digit to its right.
Double(x) ==
  Trim1(Decimal([j \in 1..(Len(x.d) + 1) |->
                   (2 * (IF j > 1 THEN x.d[j - 1] ELSE 0)
                    + (IF j <= Len(x.d) /\ x.d[j] >= 5 THEN 1 ELSE 0)) % 10] \o <<>>,
                x.p + 1))

\* x/2: each digit halves and takes ten from an odd digit to its left.
Half(x) ==
  Trim1(Decimal([j \in 1..(Len(x.d) + 1) |->
                   ((IF j > 1 /\ x.d[j - 1] % 2 = 1 THEN 10 ELSE 0)
                    + (IF j <= Len(x.d) THEN x.d[j] ELSE 0)) \div 2] \o <<>>,
                x.p))

RECURSIVE Times2(_, _)
Times2(x, n) ==
  IF x.d = <<>> \/ n = 0 THEN x ELSE IF n = 1 THEN Double(x)
  ELSE Times2(Times2(x, n \div 2), n - n \div 2)
RECURSIVE Halve(_, _)
Halve(x, n) ==
  IF x.d = <<>> \/ n = 0 THEN x ELSE IF n = 1 THEN Half(x)
  ELSE Halve(Halve(x, n \div 2), n - n \div 2)

\* x * 2^e
Scale(x, e) == IF e >= 0 THEN Times2(x, e) ELSE Halve(x, -e)

RECURSIVE LexCmp(_, _, _)
LexCmp(a, b, j) ==
  IF j > Len(a) THEN 0
  ELSE IF a[j] < b[j] THEN -1
  ELSE IF a[j] > b[j] THEN 1
  ELSE LexCmp(a, b, j + 1)

RECURSIVE Inc(_)
Inc(q) ==
  IF q = <<>> THEN <<1>>
  ELSE IF q[Len(q)] < 9 THEN [q EXCEPT ![Len(q)] = @ + 1]
  ELSE Inc(SubSeq(q, 1, Len(q) - 1)) \o <<0>>

\* q - 1 for q >= 1; zero is the empty digit sequence.
RECURSIVE Borrow(_)
Borrow(q) ==
  IF q[Len(q)] > 0 THEN [q EXCEPT ![Len(q)] = @ - 1]
  ELSE Borrow(SubSeq(q, 1, Len(q) - 1)) \o <<9>>

\* 2^53 and 2^52: a double is q * 2^e with q < 2^53, and q >= 2^52 unless
\* e = -1074 (the subnormal numbers); the largest has e = 971.
Two53 == <<9, 0, 0, 7, 1, 9, 9, 2, 5, 4, 7, 4, 0, 9, 9, 2>>
Two52 == <<4, 5, 0, 3, 5, 9, 9, 6, 2, 7, 3, 7, 0, 4, 9, 6>>

\* x * 2^e rewritten so that x lies in [2^52, 2^53), or below with e = -1074.
RECURSIVE Normalize(_, _)
Normalize(x, e) ==
  LET q == IntPart(x)
  IN IF Len(q) > Len(Two53) \/ (Len(q) = Len(Two53) /\ LexCmp(q, Two53, 1) >= 0)
     THEN Normalize(Half(x), e + 1)
     ELSE IF (Len(q) < Len(Two52) \/ (Len(q) = Len(Two52) /\ LexCmp(q, Two52, 1) < 0))
             /\ e > -1074
     THEN Normalize(Double(x), e - 1)
     ELSE [x |-> x, e |-> e]

\* The number of zeros of d from position j on, up to the first other digit.
RECURSIVE LeadZ(_, _)
LeadZ(d, j) == IF j <= Len(d) /\ d[j] = 0 THEN 1 + LeadZ(d, j + 1) ELSE 0

\* The j-th digit of x written as 0.d1d2... * 10^N; the last j with a digit is
\* Len(x.d) - x.p + N.
DigitAt(x, N, j) ==
  IF x.p - N + j >= 1 /\ x.p - N + j <= Len(x.d) THEN x.d[x.p - N + j] ELSE 0

\* Comparison of 0.c1..ck * 10^N with x.
RECURSIVE CmpAt(_, _, _, _)
CmpAt(c, x, N, j) ==
  IF j > Len(c) /\ j > Len(x.d) - x.p + N THEN 0
  ELSE IF (IF j <= Len(c) THEN c[j] ELSE 0) < DigitAt(x, N, j) THEN -1
  ELSE IF (IF j <= Len(c) THEN c[j] ELSE 0) > DigitAt(x, N, j) THEN 1
  ELSE CmpAt(c, x, N, j + 1)

\* The fewest digits c (k of them, from k on) with 0.c * 10^N between lo and hi
\* (the bounds themselves when incl), and of two such the one nearer to x, the
\* even one when both are as near.
RECURSIVE Shortest(_, _, _, _, _, _)
Shortest(x, lo, hi, incl, N, k) ==
  LET low == [j \in 1..k |-> DigitAt(x, N, j)] \o <<>>
      up == Inc(low)
      lowOk == CmpAt(low, lo, N, 1) > 0 \/ (incl /\ CmpAt(low, lo, N, 1) = 0)
      upOk == Len(up) = k /\ (CmpAt(up, hi, N, 1) < 0 \/ (incl /\ CmpAt(up, hi, N, 1) = 0))
      nxt == DigitAt(x, N, k + 1)
      rest == \E j \in (k + 2)..(Len(x.d) - x.p + N) : DigitAt(x, N, j) # 0
      upNearer == nxt > 5 \/ (nxt = 5 /\ (rest \/ low[k] % 2 = 1))
  IN IF lowOk /\ upOk THEN (IF upNearer THEN up ELSE low)
     ELSE IF lowOk THEN low
     ELSE IF upOk THEN up
     ELSE Shortest(x, lo, hi, incl, N, k + 1)

\* The digits c[a..b] as a string.
RECURSIVE DigitsText(_, _, _)
DigitsText(c, a, b) ==
  IF a > b THEN "" ELSE IF a = b THEN DigitStr(c[a])
  ELSE DigitsText(c, a, (a + b) \div 2) \o DigitsText(c, (a + b) \div 2 + 1, b)

\* The text of the double q * 2^e, q > 0: the numbers that round to it lie
\* between the midpoints to its neighbours, which themselves round to it when q
\* is even; below a power of two the neighbour is half as far.  `below` is
\* q - 1, N the position of the first digit of hi (hi = 0.d1d2... * 10^N), c the
\* shortest digits, which Number.prototype.toString then writes out.
DoubleText(neg, q, e) ==
  LET x == Scale(Decimal(q, Len(q)), e)
      b == Borrow(q)
      below == IF b[1] = 0 THEN Tail(b) ELSE b
      lo == Scale(Decimal(below \o (IF q = Two52 /\ e > -1074 THEN <<7, 5>> ELSE <<5>>),
                          Len(below)), e)
      hi == Scale(Decimal(q \o <<5>>, Len(q)), e)
      N == IF hi.p > 0 THEN hi.p ELSE -LeadZ(hi.d, 1)
      c == Shortest(x, lo, hi, q[Len(q)] % 2 = 0, N, 1)
  IN NumberToString(neg, StripTrailingZeros(DigitsText(c, LeadZ(c, 1) + 1, Len(c))), N - LeadZ(c, 1))

\* The double nearest to x * 2^e, x as Normalize leaves it.
Rounded(neg, q, e) ==
  IF q = <<>> THEN JsNum(IF neg THEN "-0" ELSE "0")
  ELSE IF (IF q = Two53 THEN e + 1 ELSE e) > 971
  THEN JsNum(IF neg THEN "-Infinity" ELSE "Infinity")
  ELSE JsNum(DoubleText(neg, IF q = Two53 THEN Two52 ELSE q,
                        IF q = Two53 THEN e + 1 ELSE e))

\* The double nearest to x = 0.ds * 10^n: x is scaled by a first binary exponent
\* e0, at most 53 below the one of the value, normalized, and rounded to the
\* nearest natural, a tie to the even one.
NearestDouble(neg, x, n) ==
  LET e0 == IF ((n - 1) * 33219) \div 10000 - 53 < -1074 THEN -1074
            ELSE ((n - 1) * 33219) \div 10000 - 53
      r == Normalize(Scale(x, -e0), e0)
      q == IntPart(r.x)
      f == SubSeq(r.x.d, r.x.p + 1, Len(r.x.d))
  IN Rounded(neg,
             IF f # <<>> /\ (f[1] > 5 \/ (f[1] = 5 /\ (Len(f) > 1 \/ q[Len(q)] % 2 = 1)))
             THEN Inc(q) ELSE q,
             r.e)

\* The number a JSON number literal denotes.  A literal of 0.1e311 and more is
\* beyond every double, one below 0.1e-330 nearer to zero than to any other.
\* Between 1e-290 and 1e290 a double holds 15 significant digits: no two
\* literals of up to 15 digits share their nearest double, so the shortest
\* digits that denote it are the literal's own.
NumberValue(s) ==
  LET p == NumParts(s)
      all == p.int \o p.frac
      z == LeadingZeros(all, 1)
      ds == StripTrailingZeros(SubSeq(all, z + 1, Len(all)))
      sig == SubSeq(p.exp, LeadingZeros(p.exp, 1) + 1, Len(p.exp))
      ev == IF Len(sig) > 3 THEN 9999 ELSE DigitsValue(sig, 1, 0)
      n == Len(p.int) - z + (IF p.expNeg THEN -ev ELSE ev)
      k == Len(ds)
      x == IF n >= k
           THEN Decimal([j \in 1..n |-> IF j <= k THEN DigitVal(Ch(ds, j)) ELSE 0] \o <<>>, n)
           ELSE IF n > 0 THEN Decimal([j \in 1..k |-> DigitVal(Ch(ds, j))] \o <<>>, n)
           ELSE Decimal([j \in 1..(k - n) |->
                           IF j <= -n THEN 0 ELSE DigitVal(Ch(ds, j + n))] \o <<>>, 0)
  IN IF ds = "" \/ n < -330 THEN JsNum(IF p.neg THEN "-0" ELSE "0")
     ELSE IF n > 310 THEN JsNum(IF p.neg THEN "-Infinity" ELSE "Infinity")
     ELSE IF Len(ds) <= 15 /\ n > -290 /\ n < 290
     THEN JsNum(NumberToString(p.neg, ds, n))
     ELSE NearestDouble(p.neg, x, n)

Punct(s) == [k |-> "punct", s |-> s]
StrTok(s) == [k |-> "str", s |-> s]
NumTok(s) == [k |-> "number", s |-> s]

\* The token a primitive value serialises to.
ValueToken(x) ==
  CASE x.t = "string" -> StrTok(x.v)
    [] x.t = "number" ->
         IF x.v \in {"Infinity", "-Infinity", "NaN"} THEN [k |-> "null", s |-> "null"]
         ELSE NumTok(IF x.v = "-0" THEN "0" ELSE x.v)
    [] OTHER -> [k |-> x.t, s |-> x.v]

\* The value a token parses to; only value tokens are passed.
TokenValue(tk) ==
  CASE tk.k = "str" -> JsStr(tk.s)
    [] tk.k = "number" -> NumberValue(tk.s)
    [] OTHER -> [t |-> tk.k, v |-> tk.s]

IsValueToken(tk) ==
  \/ tk.k = "str"
  \/ tk.k = "boolean" /\ tk.s \in {"true", "false"}
  \/ tk.k = "null" /\ tk.s = "null"
  \/ /\ tk.k = "number"
     /\ LET p == NumParts(tk.s)
        IN /\ p.int # ""
           /\ Len(p.int) > 1 => Ch(p.int, 1) # "0"
           /\ p.hasFrac => p.frac # ""
           /\ p.hasExp => p.exp # ""
           /\ p.end = Len(tk.s) + 1

RECURSIVE StringifyMembers(_, _, _)
StringifyMembers(obj, keys, i) ==
  IF i > Len(keys) THEN <<>>
  ELSE (IF i > 1 THEN <<Punct(",")>> ELSE <<>>)
       \o <<StrTok(keys[i]), Punct(":"), ValueToken(obj[keys[i]])>>
       \o StringifyMembers(obj, keys, i + 1)

\* JSON.stringify of an object of primitive values whose own keys, in insertion
\* order, are `keys`.
JSONstringify(obj, keys) ==
  <<Punct("{")>> \o StringifyMembers(obj, keys, 1) \o <<Punct("}")>>

EmptyObj == [k \in {} |-> JsNull]

ParseFail == [ok |-> FALSE, val |-> JsNull, next |-> 0]

\* A JSON value from token i on: [ok, val, next], next the position after it.
RECURSIVE ParseValue(_, _)

\* Members of an object from token i on: key ":" value, then "," or the closing
\* "}"; a key given twice keeps its last value.
RECURSIVE ParseMembers(_, _, _)

\* Elements of an array from token i on: value, then "," or the closing "]".
RECURSIVE ParseElements(_, _, _)
ParseValue(toks, i) ==
  IF i > Len(toks) THEN ParseFail
  ELSE IF toks[i] = Punct("{")
  THEN (IF i < Len(toks) /\ toks[i + 1] = Punct("}")
        THEN [ok |-> TRUE, val |-> JsObj(EmptyObj), next |-> i + 2]
        ELSE ParseMembers(toks, i + 1, EmptyObj))
  ELSE IF toks[i] = Punct("[")
  THEN (IF i < Len(toks) /\ toks[i + 1] = Punct("]")
        THEN [ok |-> TRUE, val |-> JsArr(<<>>), next |-> i + 2]
        ELSE ParseElements(toks, i + 1, <<>>))
  ELSE IF IsValueToken(toks[i])
  THEN [ok |-> TRUE, val |-> TokenValue(toks[i]), next |-> i + 1]
  ELSE ParseFail

ParseMembers(toks, i, acc) ==
  IF i + 1 > Len(toks) THEN ParseFail
  ELSE IF ~(toks[i].k = "str" /\ toks[i + 1] = Punct(":")) THEN ParseFail
  ELSE LET r == ParseValue(toks, i + 2)
           member == [k \in {toks[i].s} |-> r.val]
           acc2 == [k \in DOMAIN acc \cup DOMAIN member |->
                      IF k \in DOMAIN member THEN member[k] ELSE acc[k]]
       IN IF ~r.ok \/ r.next > Len(toks) THEN ParseFail
          ELSE IF toks[r.next] = Punct("}")
          THEN [ok |-> TRUE, val |-> JsObj(acc2), next |-> r.next + 1]
          ELSE IF toks[r.next] = Punct(",") THEN ParseMembers(toks, r.next + 1, acc2)
          ELSE ParseFail

ParseElements(toks, i, acc) ==
  LET r == ParseValue(toks, i)
  IN IF ~r.ok \/ r.next > Len(toks) THEN ParseFail
     ELSE IF toks[r.next] = Punct("]")
     THEN [ok |-> TRUE, val |-> JsArr(Append(acc, r.val)), next |-> r.next + 1]
     ELSE IF toks[r.next] = Punct(",")
     THEN ParseElements(toks, r.next + 1, Append(acc, r.val))
     ELSE ParseFail

\* JSON.parse: one value, and nothing after it.
JSONparse(toks) ==
  LET r == ParseValue(toks, 1)
  IN IF r.ok /\ r.next = Len(toks) + 1 THEN [ok |-> TRUE, val |-> r.val]
     ELSE [ok |-> FALSE, val |-> JsNull]

\* The own enumerable properties object spread copies from a value: those of an
\* object; the elements of an array and the characters of a string under their
\* index; none for null, a boolean or a number.
OwnProps(x) ==
  CASE x.t = "object" -> x.v
    [] x.t = "array" ->
         [k \in {NatStr(j - 1) : j \in 1..Len(x.v)} |->
            x.v[CHOOSE j \in 1..Len(x.v) : NatStr(j - 1) = k]]
    [] x.t = "string" ->
         [k \in {NatStr(j - 1) : j \in 1..Len(x.v)} |->
            JsStr(Ch(x.v, CHOOSE j \in 1..Len(x.v) : NatStr(j - 1) = k))]
    [] OTHER -> EmptyObj

\* { ...a, ...b } for the own properties a and b
Spread(a, b) ==
  [k \in DOMAIN a \cup DOMAIN b |-> IF k \in DOMAIN b THEN b[k] ELSE a[k]]

(***************************************************************************)
(* Paths and the file system.                                              *)
(***************************************************************************)
Root == <<>>
RUNTIME_DIR == <<"srv">>

\* A directory other than RUNTIME_DIR that a packaged build is started from.
OtherDir == <<"other">>
LOG_FILE == RUNTIME_DIR \o <<"installer.log">>
CONFIG_FILE == RUNTIME_DIR \o <<"installer-config.json">>
DOWNLOADER_ZIP == RUNTIME_DIR \o <<"hytale-downloader.zip">>
EXTRACT_DIR == RUNTIME_DIR \o <<"hytale-downloader">>
ServerDir == RUNTIME_DIR \o <<"Server">>

DirMark == <<"<dir>">>

IsPrefix(p, q) == Len(p) <= Len(q) /\ SubSeq(q, 1, Len(p)) = p
Parent(p) == SubSeq(p, 1, Len(p) - 1)

Exists(f, p) == p \in DOMAIN f
IsDir(f, p) == p \in DOMAIN f /\ f[p] = DirMark
IsFile(f, p) == p \in DOMAIN f /\ f[p] # DirMark

Put(f, p, c) == [q \in DOMAIN f \cup {p} |-> IF q = p THEN c ELSE f[q]]
Remove(f, p) == [q \in DOMAIN f \ {p} |-> f[q]]
Children(f, p) == {q \in DOMAIN f : Len(q) = Len(p) + 1 /\ IsPrefix(p, q)}

\* What the operating system refuses: the paths it will not remove and the
\* paths it denies access to.
NoRefusal == [stuck |-> {}, denied |-> {}]
Stuck(S) == [stuck |-> S, denied |-> {}]
Denied(S) == [stuck |-> {}, denied |-> S]

\* fs.promises.mkdir(p, { recursive: true }): fails when a component is a file or
\* may not be created; the directories above it are made by then.
RECURSIVE mkdirp(_, _, _, _)
mkdirp(f, p, os, i) ==
  IF i > Len(p) THEN [ok |-> TRUE, fs |-> f]
  ELSE LET q == SubSeq(p, 1, i)
       IN IF IsFile(f, q) \/ (~Exists(f, q) /\ q \in os.denied)
          THEN [ok |-> FALSE, fs |-> f]
          ELSE mkdirp(Put(f, q, DirMark), p, os, i + 1)

\* A write stream / copyFile onto p: the parent must be a directory and p no directory.
writeFile(f, p, c, os) ==
  IF IsDir(f, Parent(p)) /\ ~IsDir(f, p) /\ p \notin os.denied
  THEN [ok |-> TRUE, fs |-> Put(f, p, c)]
  ELSE [ok |-> FALSE, fs |-> f]

\* fs.promises.unlink(p) with its failure swallowed.
unlinkQuiet(f, p, os) == IF IsFile(f, p) /\ p \notin os.stuck THEN Remove(f, p) ELSE f

\* fs.promises.rmdir(p) with its failure swallowed: removes an empty directory only.
rmdirQuiet(f, p, os) ==
  IF IsDir(f, p) /\ Children(f, p) = {} /\ p \notin os.stuck THEN Remove(f, p) ELSE f

\* What a recursive removal of p leaves behind: a node that will not go and the
\* directories above it; whatever lies below a directory access is denied to
\* (removing an entry needs access to the directory that holds it, not to the
\* entry) and the directories above that; the root.
Kept(f, p, os) ==
  {r \in DOMAIN f :
     /\ IsPrefix(p, r)
     /\ \/ r = Root
        \/ \E s \in os.stuck \cap DOMAIN f : IsPrefix(r, s)
        \/ \E s \in os.denied, c \in DOMAIN f :
              IsDir(f, s) /\ c # s /\ IsPrefix(s, c) /\ IsPrefix(r, c)}

\* fs.promises.rm(p, { recursive: true, force: true }): everything at and below p
\* that can go does; the call fails when something is left.  A path that does
\* not exist is no failure, a path below a regular file is one (ENOTDIR).
rmTree(f, p, os) ==
  IF \E i \in 0..(Len(p) - 1) : IsFile(f, SubSeq(p, 1, i))
  THEN [ok |-> FALSE, fs |-> f]
  ELSE [ok |-> Kept(f, p, os) = {},
        fs |-> [q \in {r \in DOMAIN f : ~IsPrefix(p, r)} \cup Kept(f, p, os) |-> f[q]]]

(***************************************************************************)
(* Logging and configuration.                                              *)
(***************************************************************************)
EmptyLog == [exists |-> TRUE, lines |-> <<>>, locked |-> FALSE, console |-> <<>>]

\* Whether fs.appendFileSync / fs.writeFileSync on LOG_FILE goes through: the
\* directory is there and the operating system lets the file be written.
LogWritable(f, lf) == IsDir(f, Parent(LOG_FILE)) /\ ~lf.locked

\* writeLog: fs.appendFileSync creates the file when it is missing; when it
\* throws, writeLog reports that on the console and goes on.  The message is
\* printed on the console either way.
writeLog(f, lf, level, msg) ==
  IF LogWritable(f, lf)
  THEN [lf EXCEPT !.exists = TRUE,
                  !.lines = Append(@, [level |-> level, msg |-> msg]),
                  !.console = Append(@, msg)]
  ELSE [lf EXCEPT !.console = @ \o <<"Failed to write log", msg>>]

log(f, lf, msg) == writeLog(f, lf, "INFO", msg)
warn(f, lf, msg) == writeLog(f, lf, "WARN", msg)
error(f, lf, msg) == writeLog(f, lf, "ERROR", msg)

HasError(lf) == \E i \in 1..Len(lf.lines) : lf.lines[i].level = "ERROR"
Logged(lf, msg) == \E i \in 1..Len(lf.lines) : lf.lines[i].msg = msg
Printed(lf, msg) == \E i \in 1..Len(lf.console) : lf.console[i] = msg

\* The messages printed, without the reports of a failed write.
Messages(lf) == SelectSeq(lf.console, LAMBDA m : m # "Failed to write log")

\* { ...DEFAULT_CONFIG, ...parsed } with the defaults taking precedence: a merge
\* written the wrong way round.
SpreadDefaultsWin(a, b) ==
  [k \in DOMAIN a \cup DOMAIN b |-> IF k \in DOMAIN a THEN a[k] ELSE b[k]]

MergeConfig(a, b) == Spread(a, b)

\* loadConfig: the configuration returned and the files as it leaves them.  A
\* file that cannot be written or read makes writeFileSync / readFileSync throw
\* inside the try block.
loadConfig(f, cf, lf) ==
  IF ~cf.exists /\ IsDir(f, Parent(CONFIG_FILE)) /\ ~cf.locked
  THEN [config |-> DEFAULT_CONFIG,
        configFile |-> [cf EXCEPT !.exists = TRUE,
                                  !.toks = JSONstringify(DEFAULT_CONFIG, ConfigKeys)],
        logFile |-> log(f, lf, "Created default installer-config.json")]
  ELSE LET parsed == JSONparse(cf.toks)
       IN IF cf.exists /\ ~cf.locked /\ parsed.ok
          THEN [config |-> MergeConfig(DEFAULT_CONFIG, OwnProps(parsed.val)),
                configFile |-> cf, logFile |-> lf]
          ELSE [config |-> DEFAULT_CONFIG, configFile |-> cf,
                logFile |-> error(f, lf, "Failed to load config.json")]

(***************************************************************************)
(* Path strings, as deleteDirs and deleteFiles receive them.               *)
(***************************************************************************)
NullStr == [root |-> "null", comps |-> <<>>, trail |-> FALSE]
EmptyStr == [root |-> "", comps |-> <<>>, trail |-> FALSE]
SlashStr == [root |-> "/", comps |-> <<>>, trail |-> FALSE]

\* The string path.join / process.cwd() produce for an absolute path.
PathStr(plat, p) ==
  [root |-> IF plat = "win32" THEN "C:\\" ELSE "/", comps |-> p, trail |-> FALSE]

\* A relative path string.
RelStr(comps) == [root |-> "", comps |-> comps, trail |-> FALSE]

\* The string process.cwd() returns.
CwdStr(plat, wd) == PathStr(plat, wd)

\* The path a path string denotes: relative strings resolve against the cwd.
Resolve(d, wd) == IF d.root = "" THEN wd \o d.comps ELSE d.comps

Falsy(d) == d = NullStr \/ d = EmptyStr

\* if (!dir || dir === "/" || dir === process.cwd()) continue;
Guarded(d, plat, wd) == Falsy(d) \/ d = SlashStr \/ d = CwdStr(plat, wd)

\* The tree as the operating system holds it: installer.log and
\* installer-config.json are regular files of it, and a locked one will not go.
View(f, lf, cf) ==
  [q \in DOMAIN f \cup (IF lf.exists THEN {LOG_FILE} ELSE {})
                   \cup (IF cf.exists THEN {CONFIG_FILE} ELSE {}) |->
     IF q \in DOMAIN f THEN f[q] ELSE IF q = LOG_FILE THEN <<"<log>">> ELSE <<"<config>">>]
Locks(lf, cf, os) ==
  [os EXCEPT !.stuck = @ \cup (IF lf.locked THEN {LOG_FILE} ELSE {})
                         \cup (IF cf.locked THEN {CONFIG_FILE} ELSE {})]

\* The three variables for a tree v of the operating system.
FilesOf(v, lf, cf) ==
  [fs |-> [q \in DOMAIN v \ {LOG_FILE, CONFIG_FILE} |-> v[q]],
   logFile |-> IF LOG_FILE \in DOMAIN v THEN lf
               ELSE [lf EXCEPT !.exists = FALSE, !.lines = <<>>],
   configFile |-> IF CONFIG_FILE \in DOMAIN v THEN cf
                  ELSE [cf EXCEPT !.exists = FALSE, !.toks = <<>>]]

\* deleteDirs: a rejection of fs.promises.rm is caught and logged as a warning.
RECURSIVE deleteDirs(_, _, _, _, _, _, _, _)
deleteDirs(f, lf, cf, dirs, plat, wd, os, i) ==
  IF i > Len(dirs) THEN [fs |-> f, logFile |-> lf, configFile |-> cf]
  ELSE IF Guarded(dirs[i], plat, wd) THEN deleteDirs(f, lf, cf, dirs, plat, wd, os, i + 1)
  ELSE LET r == rmTree(View(f, lf, cf), Resolve(dirs[i], wd), Locks(lf, cf, os))
           a == FilesOf(r.fs, lf, cf)
       IN deleteDirs(a.fs,
                     IF r.ok THEN a.logFile ELSE warn(a.fs, a.logFile, "Failed to delete"),
                     a.configFile, dirs, plat, wd, os, i + 1)

\* deleteFiles: unlink each path, every failure swallowed.
RECURSIVE deleteFiles(_, _, _, _, _, _, _)
deleteFiles(f, lf, cf, files, wd, os, i) ==
  IF i > Len(files) THEN [fs |-> f, logFile |-> lf, configFile |-> cf]
  ELSE LET a == FilesOf(unlinkQuiet(View(f, lf, cf), Resolve(files[i], wd),
                                    Locks(lf, cf, os)), lf, cf)
       IN deleteFiles(a.fs, a.logFile, a.configFile, files, wd, os, i + 1)

(***************************************************************************)
(* moveAll.                                                                *)
(***************************************************************************)

RECURSIVE moveAll(_, _, _, _, _)
RECURSIVE moveItems(_, _, _, _, _, _)
moveItems(f, src, dest, items, ord, os) ==
  IF items = <<>> THEN [ok |-> TRUE, fs |-> f]
  ELSE LET item == Head(items)
           srcPath == src \o <<item.name>>
           destPath == dest \o <<item.name>>
       IN IF item.isDir
          THEN LET m == mkdirp(f, destPath, os, 1)
                   r == moveAll(m.fs, srcPath, destPath, ord, os)
               IN IF ~m.ok THEN m
                  ELSE IF ~r.ok THEN r
                  ELSE moveItems(rmdirQuiet(r.fs, srcPath, os), src, dest, Tail(items),
                                 ord, os)
          ELSE LET c == IF IsFile(f, srcPath) /\ srcPath \notin os.denied
                        THEN writeFile(f, destPath, f[srcPath], os)
                        ELSE [ok |-> FALSE, fs |-> f]
               IN IF ~c.ok THEN c
                  ELSE moveItems(unlinkQuiet(c.fs, srcPath, os), src, dest, Tail(items),
                                 ord, os)

moveAll(f, src, dest, ord, os) ==
  IF ~IsDir(f, src) \/ src \in os.denied THEN [ok |-> FALSE, fs |-> f]
  ELSE LET present == {q[Len(q)] : q \in Children(f, src)}
           names == SelectSeq(ord, LAMBDA n : n \in present)
       IN moveItems(f, src, dest,
                    [j \in 1..Len(names) |->
                       [name |-> names[j], isDir |-> IsDir(f, src \o <<names[j]>>)]],
                    ord, os)

(***************************************************************************)
(* unzipAll.                                                               *)
(***************************************************************************)
\* The entries of an archive, in listing order: [path, type, content], type
\* "File" or "Directory".
RECURSIVE unzipEntries(_, _, _, _)
unzipEntries(f, targetDir, entries, os) ==
  IF entries = <<>> THEN [ok |-> TRUE, fs |-> f]
  ELSE LET file == Head(entries)
           fullPath == targetDir \o file.path
       IN IF file.type = "Directory"
          THEN LET d == mkdirp(f, fullPath, os, 1)
               IN IF ~d.ok THEN d ELSE unzipEntries(d.fs, targetDir, Tail(entries), os)
          ELSE LET m == mkdirp(f, Parent(fullPath), os, 1)
                   w == writeFile(m.fs, fullPath, file.content, os)
               IN IF ~m.ok THEN m
                  ELSE IF ~w.ok THEN w
                  ELSE unzipEntries(w.fs, targetDir, Tail(entries), os)

\* unzipAll(zipPath, targetDir); `entries` is what unzipper.Open.file lists, and
\* `readable` whether the file at zipPath opens as an archive.
unzipAll(f, zipPath, targetDir, readable, entries, os) ==
  LET m == mkdirp(f, targetDir, os, 1)
  IN IF ~m.ok THEN m
     ELSE IF ~(IsFile(m.fs, zipPath) /\ readable /\ zipPath \notin os.denied)
     THEN [ok |-> FALSE, fs |-> m.fs]
     ELSE unzipEntries(m.fs, targetDir, entries, os)

(***************************************************************************)
(* findNewestZip.                                                          *)
(***************************************************************************)
SERVER_ZIP == RUNTIME_DIR \o <<"server.zip">>

\* f.endsWith(".zip"), over the file names the model uses.
EndsWithZip(n) == n \in {"hytale-downloader.zip", "server.zip", "Assets.zip"}

Perms(S) ==
  {s \in [1..Cardinality(S) -> S] : \A i, j \in 1..Cardinality(S) : i # j => s[i] # s[j]}

\* Array.prototype.sort((a, b) => b.time - a.time): stable, newest first.
RECURSIVE InsertDesc(_, _)
InsertDesc(x, s) ==
  IF s = <<>> THEN <<x>>
  ELSE IF x.time > Head(s).time THEN <<x>> \o s
  ELSE <<Head(s)>> \o InsertDesc(x, Tail(s))

RECURSIVE SortDesc(_, _, _)
SortDesc(s, i, acc) ==
  IF i > Len(s) THEN acc ELSE SortDesc(s, i + 1, InsertDesc(s[i], acc))

\* findNewestZip(dir); `listing` is what fs.readdirSync(dir) returns; it throws
\* when the directory cannot be read.
findNewestZip(mt, dir, listing, os) ==
  LET names == SelectSeq(listing, EndsWithZip)
      zips == SortDesc([j \in 1..Len(names) |-> [name |-> names[j], time |-> mt[names[j]]]],
                       1, <<>>)
  IN IF dir \in os.denied THEN [ok |-> FALSE, path |-> <<>>, msg |-> "EACCES"]
     ELSE IF Len(zips) = 0
     THEN [ok |-> FALSE, path |-> <<>>, msg |-> "No downloaded ZIP found"]
     ELSE [ok |-> TRUE, path |-> dir \o <<zips[1].name>>, msg |-> ""]

\* The names readdirSync lists in dir.
ListingNames(f, dir) == {q[Len(q)] : q \in Children(f, dir)}

(***************************************************************************)
(* checkJava.  A string of the output of `java -version` is the sequence   *)
(* of its UTF-16 code units.                                               *)
(***************************************************************************)
MinJavaVersion == 25

\* The code units of a string of printable ASCII characters: 32..95 and 97..126.
Units(str) ==
  LET low == " !\"#$%&'()*+,-./0123456789:;<=>?@ABCDEFGHIJKLMNOPQRSTUVWXYZ[\\]^_"
      high == "abcdefghijklmnopqrstuvwxyz{|}~"
  IN [i \in 1..Len(str) |->
        IF \E k \in 1..Len(low) : SubSeq(low, k, k) = SubSeq(str, i, i)
        THEN 31 + CHOOSE k \in 1..Len(low) : SubSeq(low, k, k) = SubSeq(str, i, i)
        ELSE 96 + CHOOSE k \in 1..Len(high) : SubSeq(high, k, k) = SubSeq(str, i, i)] \o <<>>

\* What \s of a regular expression matches and String.prototype.trim strips:
\* WhiteSpace (TAB, VT, FF, SP, NBSP, U+1680, U+2000..U+200A, U+202F, U+205F,
\* U+3000, U+FEFF) and LineTerminator (LF, CR, U+2028, U+2029).
IsSpace(c) ==
  c \in {9, 10, 11, 12, 13, 32, 160, 5760, 8232, 8233, 8239, 8287, 12288, 65279}
        \cup (8192..8202)

RECURSIVE TrimLeft(_)
TrimLeft(s) == IF s # <<>> /\ IsSpace(Head(s)) THEN TrimLeft(Tail(s)) ELSE s
RECURSIVE TrimRight(_)
TrimRight(s) ==
  IF s # <<>> /\ IsSpace(s[Len(s)]) THEN TrimRight(SubSeq(s, 1, Len(s) - 1)) ELSE s

\* execAsync: rejects only when exec reports an error and stderr is empty;
\* otherwise resolves with (stdout + stderr).trim().
execAsync(err, stdout, stderr) ==
  IF err /\ stderr = <<>> THEN [ok |-> FALSE, out |-> <<>>]
  ELSE [ok |-> TRUE, out |-> TrimRight(TrimLeft(stdout \o stderr))]

\* \s+ from position i: the position after the white space.
RECURSIVE SkipSpaces(_, _)
SkipSpaces(s, i) == IF i <= Len(s) /\ IsSpace(s[i]) THEN SkipSpaces(s, i + 1) ELSE i

\* (\d+) from position i: the digits 0..9 (48..57) found there.
RECURSIVE TakeDigits(_, _)
TakeDigits(s, i) ==
  IF i <= Len(s) /\ s[i] \in 48..57 THEN <<s[i]>> \o TakeDigits(s, i + 1) ELSE <<>>

\* The capture group of /version\s+"(\d+)/i when the match starts at i, else <<>>:
\* the seven letters in either case (flag i folds a..z with A..Z only), one or
\* more white-space characters, the double quote (34), one or more digits.
MatchAt(s, i) ==
  LET j == SkipSpaces(s, i + 7)
  IN IF /\ i + 6 <= Len(s)
        /\ \A k \in 1..7 : s[i + k - 1] \in {Units("version")[k], Units("VERSION")[k]}
        /\ j > i + 7 /\ j <= Len(s) /\ s[j] = 34
     THEN TakeDigits(s, j + 1)
     ELSE <<>>

\* out.match(...): the leftmost match, tried at every position of the string.
RECURSIVE MatchFrom(_, _)
MatchFrom(s, i) ==
  IF i > Len(s) THEN <<>>
  ELSE IF MatchAt(s, i) # <<>> THEN MatchAt(s, i)
  ELSE MatchFrom(s, i + 1)

\* The double nearest to the natural number with the decimal digits d, which
\* start with no zero: beyond 310 digits Infinity, up to 15 digits the number
\* itself.
Natural(d) ==
  IF d = <<>> THEN JsNum("0")
  ELSE IF Len(d) > 310 THEN JsNum("Infinity")
  ELSE IF Len(d) <= 15 THEN JsNum(DigitsText(d, 1, Len(d)))
  ELSE NearestDouble(FALSE, Decimal(d, Len(d)), Len(d))

\* Number(match[1]) of a string of decimal digits; leading zeros count for nothing.
Number(ds) ==
  LET d == [j \in 1..Len(ds) |-> ds[j] - 48] \o <<>>
  IN Natural(SubSeq(d, LeadZ(d, 1) + 1, Len(d)))

\* The version test with the comparison dropped.
VersionAlwaysOk(version) == TRUE

\* !(version < 25).  version is a natural number or Infinity, and its text is
\* all digits unless it is 1e21 or more.
VersionOk(version) ==
  ~(/\ DigitsEnd(version.v, 1) > Len(version.v)
    /\ Len(version.v) <= Len(NatStr(MinJavaVersion))
    /\ DigitsValue(version.v, 1, 0) < MinJavaVersion)

\* checkJava: ok, or the message of the error it throws.
checkJava(err, stdout, stderr) ==
  LET r == execAsync(err, stdout, stderr)
      match == MatchFrom(r.out, 1)
  IN IF ~r.ok THEN [ok |-> FALSE, msg |-> "Java not installed or not accessible"]
     ELSE IF match = <<>> THEN [ok |-> FALSE, msg |-> "Cannot parse Java version"]
     ELSE IF ~VersionOk(Number(match))
     THEN [ok |-> FALSE,
           msg |-> "Java " \o Number(match).v \o " was detected but 25+ is required"]
     ELSE [ok |-> TRUE, msg |-> ""]

Sample(err, stdout, stderr, major) ==
  [err |-> err, stdout |-> stdout, stderr |-> stderr, major |-> major]

\* What exec may report for `java -version`.  `major` is the number the output
\* states after the first "version", in any mix of case and possibly at the end
\* of a longer word, followed by white space of any kind and a double quote;
\* -1 when it states none, or when exec reports an error and nothing on stderr,
\* so that no output is handed on; 2147483647 stands for every number above it.
\* checkJava does not read it.
JavaOutputs ==
  {Sample(FALSE, <<>>,
          Units("openjdk version \"30.0.1\" 2026-04-21") \o <<10>>
            \o Units("OpenJDK Runtime Environment") \o <<10>>, 30),
   Sample(FALSE, <<>>, Units("JAVA-vErSiOn") \o <<13, 10>> \o Units("\"25.0.1\"") \o <<13, 10>>, 25),
   Sample(FALSE, <<>>, Units("openjdk version \"24.0.2\"") \o <<13>>, 24),
   Sample(FALSE, <<>>, Units("openjdk version \"9007199254740993\""), 2147483647),
   Sample(FALSE, <<>>, Units("openjdk version \"00000000000000000000000024\""), 24),
   Sample(FALSE, <<>>, Units("java version") \o <<12>> \o Units("\"1.8.0_202\"") \o <<10>>, 1),
   Sample(FALSE, <<>>, Units("VERSION") \o <<11, 160, 8232, 5760, 8195>> \o Units("\"21\""), 21),
   Sample(FALSE, Units("openjdk version \"9\"") \o <<10>>, <<>>, 9),
   Sample(FALSE, Units("openjdk version "), Units("\"007\""), 7),
   Sample(TRUE, <<>>, Units("openjdk version \"11.0.2\""), 11),
   Sample(TRUE, <<>>, <<>>, -1),
   Sample(TRUE, Units("openjdk version \"30.0.1\""), <<>>, -1),
   Sample(TRUE, <<>>, Units("sh: 1: java: not found") \o <<10>>, -1),
   Sample(FALSE, <<>>, <<13, 10, 9>>, -1),
   Sample(FALSE, <<>>, Units("java version unknown"), -1),
   Sample(FALSE, <<>>, Units("version\"30\""), -1),
   Sample(FALSE, <<>>, Units("versions \"30\""), -1),
   Sample(FALSE, <<>>, Units("version \"x30\""), -1),
   Sample(FALSE, <<>>, Units("versi0n \"30\""), -1),
   Sample(FALSE, <<>>,
          Units("version x") \o <<10>> \o Units("openjdk Version \"17.0.1\"") \o <<10>>, 17)}

(***************************************************************************)
(* runDownloader: the promise and the child's event handlers.              *)
(***************************************************************************)
\* resolve/reject of a promise: only a pending promise changes state.
Settle(p, outcome) == IF p = "pending" THEN outcome ELSE p

\* proc.on("error", reject)
OnError(p) == Settle(p, "rejected")

\* An exit handler that looks at neither the code nor the signal.
OnExitAlwaysResolve(p, code, signal) == Settle(p, "resolved")

\* proc.on("exit", (code, signal) => ...); a null code is -1, a null signal "none".
OnExit(p, code, signal) ==
  IF signal # "none" THEN Settle(p, "rejected")
  ELSE IF code # 0 THEN Settle(p, "rejected")
  ELSE Settle(p, "resolved")

(***************************************************************************)
(* The installer: module top level and main.                               *)
(***************************************************************************)
\* let DOWNLOADER_EXE = platform === "win32" ? ... : platform === "linux" ? ... : null
ExeFallsBackToLinux(plat) ==
  IF plat = "win32" THEN "hytale-downloader-windows-amd64.exe"
  ELSE "hytale-downloader-linux-amd64"

ExeFor(plat) ==
  IF plat = "win32" THEN "hytale-downloader-windows-amd64.exe"
  ELSE IF plat = "linux" THEN "hytale-downloader-linux-amd64"
  ELSE "null"

StepOrder(plat) ==
  <<"checkJava", "downloadFile", "unzipDownloader">>
  \o (IF plat = "linux" THEN <<"chmod">> ELSE <<>>)
  \o <<"runDownloader", "findNewestZip", "unzipServer", "moveAll", "cleanup", "startServer">>

Contains(s, x) == \E i \in 1..Len(s) : s[i] = x

\* The step main runs after `step` has completed.
After(step, plat) ==
  LET o == StepOrder(plat) IN o[(CHOOSE i \in 1..Len(o) : o[i] = step) + 1]

\* A rejection swallowed at the await: main carries on with the next step.
RaiseSwallowed(next) == next

\* Where main goes when an awaited step throws: the catch block ends in exit(1).
Raise(next) == "exited"

DownloaderContent == <<"zip", "downloader">>

\* The file paths of a server archive, relative to the directory the archive is
\* extracted into; the files of one archive are up to MaxFiles of them, none
\* lying below another.
Names == {"Server", "a"}
ArchivePaths ==
  {<<"a">>} \cup
  {p \in UNION {[1..n -> Names] : n \in 1..MaxDepth} : p[1] = "Server"}
\* An archive: its files, its directory entries, and whether the directory
\* entries are listed before the files or after them.  The directory entries
\* are none, the directories of the files, or one directory of its own: a
\* directory which no file of the archive is or lies above.
Layouts(S) ==
  {[files |-> S, dirs |-> {}, dirsFirst |-> FALSE]}
  \cup {[files |-> S, dirsFirst |-> b,
          dirs |-> UNION {{SubSeq(p, 1, i) : i \in 1..(Len(p) - 1)} : p \in S}] :
        b \in BOOLEAN}
  \cup {[files |-> S, dirs |-> {d}, dirsFirst |-> FALSE] :
        d \in {e \in ArchivePaths : Len(e) = 2 /\ \A p \in S : ~IsPrefix(p, e)}}
ServerArchives ==
  UNION {Layouts(S) :
           S \in {T \in SUBSET ArchivePaths :
                    /\ Cardinality(T) \in 1..MaxFiles
                    /\ \A p, q \in T : p # q => ~IsPrefix(p, q)}}
NoLayout == [files |-> {}, dirs |-> {}, dirsFirst |-> FALSE]

RECURSIVE SetToSeq(_)
SetToSeq(S) ==
  IF S = {} THEN <<>>
  ELSE LET x == CHOOSE y \in S : TRUE IN <<x>> \o SetToSeq(S \ {x})

\* The entries unzipper lists for the zip with the given content.
EntriesOf(content, layout) ==
  IF content = DownloaderContent
  THEN <<[path |-> <<"hytale-downloader-linux-amd64">>, type |-> "File",
          content |-> <<"exe">>],
         [path |-> <<"hytale-downloader-windows-amd64.exe">>, type |-> "File",
          content |-> <<"exe">>],
         [path |-> <<"QUICKSTART.md">>, type |-> "File", content |-> <<"doc">>]>>
  ELSE LET ps == SetToSeq(layout.files)
           ds == SetToSeq(layout.dirs)
           files == [j \in 1..Len(ps) |->
                       [path |-> ps[j], type |-> "File", content |-> ps[j]]]
           dirs == [j \in 1..Len(ds) |->
                      [path |-> ds[j], type |-> "Directory", content |-> <<>>]]
       IN IF layout.dirsFirst THEN dirs \o files ELSE files \o dirs

Obj1(k, x) == [key \in {k} |-> x]

\* The text { "k": <toks> }.
Member(k, toks) == <<Punct("{"), StrTok(k), Punct(":")>> \o toks \o <<Punct("}")>>

\* The tree before a first run: RUNTIME_DIR, and another directory with a file
\* of its own.
FreshFs ==
  [q \in {Root, RUNTIME_DIR, OtherDir} |-> DirMark]
  @@ (OtherDir \o <<"QUICKSTART.md">> :> <<"doc">>)

Init ==
  /\ platform \in {"win32", "linux", "darwin"}
  /\ pc = "resetLog"
  /\ DOWNLOADER_EXE = "null"
  /\ config = EmptyObj
  /\ configFile \in ({[exists |-> FALSE, toks |-> <<>>, locked |-> FALSE],
                      [exists |-> TRUE, toks |-> <<Punct("{"), StrTok("startServer")>>, locked |-> FALSE],
                      [exists |-> TRUE, locked |-> FALSE,
                       toks |-> <<Punct("{"), StrTok("startServer"), Punct(":"), NumTok("0.0"), Punct(","),
                                  StrTok("cleanUp"), Punct(":"), Punct("{"), Punct("}"), Punct("}")>>]}
                     \cup
                     {[exists |-> TRUE, toks |-> JSONstringify(o.obj, o.keys), locked |-> FALSE] : o \in
                        {[obj |-> Obj1("startServer", JsBool(FALSE)), keys |-> <<"startServer">>],
                         [obj |-> Obj1("cleanUp", JsBool(FALSE)), keys |-> <<"cleanUp">>],
                         [obj |-> Spread(Obj1("startServer", JsBool(FALSE)), Obj1("cleanUp", JsBool(FALSE))),
                          keys |-> <<"startServer", "cleanUp">>],
                         [obj |-> Obj1("downloaderArgs", JsNum("5")), keys |-> <<"downloaderArgs">>],
                         [obj |-> Spread(Obj1("startServer", JsStr("no")), Obj1("javaArgs", JsNull)),
                          keys |-> <<"startServer", "javaArgs">>]}})
  \* How the installer is started: for the first time or after an earlier run,
  \* with a log file that can be written or not, and from RUNTIME_DIR or, as a
  \* packaged build, from another directory.
  /\ \E env \in {[rerun |-> FALSE, locked |-> FALSE, cwd |-> RUNTIME_DIR],
                 [rerun |-> TRUE, locked |-> TRUE, cwd |-> RUNTIME_DIR],
                 [rerun |-> TRUE, locked |-> FALSE, cwd |-> OtherDir]} :
       /\ cwd = env.cwd
       /\ logFile = [exists |-> env.rerun,
                     lines |-> IF env.rerun THEN <<[level |-> "INFO", msg |-> "Done."]>>
                               ELSE <<>>,
                     locked |-> env.locked, console |-> <<>>]
       /\ fs = IF env.rerun THEN Put(FreshFs, RUNTIME_DIR \o <<"Assets.zip">>, <<"zip", "assets">>) ELSE FreshFs
       /\ mtime = [n \in {"Assets.zip"} |-> 0]
  /\ requests = 0
  /\ handlers = FALSE
  /\ promise = "none"
  /\ settled = 0
  /\ childEvents = <<>>
  /\ downloadedZip = <<>>
  /\ archive = {}
  /\ javaOut = Sample(FALSE, <<>>, <<>>, -1)
  /\ started = <<>>
  /\ fatal = ""
  /\ exited = FALSE
  /\ exitCode = 0
  /\ serverSpawned = FALSE
  /\ dirsArg = <<>>
  /\ loads = <<>>

\* Reset log file (module top level): a failure of fs.writeFileSync is reported
\* on the console and the file stays as it is.
ResetLog ==
  /\ pc = "resetLog"
  /\ logFile' = IF LogWritable(fs, logFile)
                THEN [logFile EXCEPT !.exists = TRUE, !.lines = <<>>]
                ELSE [logFile EXCEPT !.console = Append(@, "Failed to reset log file")]
  /\ pc' = "platform"
  /\ UNCHANGED <<platform, cwd, DOWNLOADER_EXE, config, configFile, fs, mtime, requests,
                 handlers, promise, settled, childEvents, downloadedZip, archive,
                 javaOut, started, fatal, exited, exitCode, serverSpawned, dirsArg, loads>>

\* An exception nothing catches: the uncaughtException handler logs it when it is
\* installed; either way the process ends with code 1.
Uncaught(f, lf, hd) == IF hd THEN error(f, lf, "UNCAUGHT EXCEPTION") ELSE lf

\* Platform resolution; the throw happens at the module top level.
ResolvePlatform ==
  /\ pc = "platform"
  /\ DOWNLOADER_EXE' = ExeFor(platform)
  /\ IF DOWNLOADER_EXE' = "null"
     THEN /\ fatal' = "Unsupported OS"
          /\ logFile' = Uncaught(fs, logFile, handlers)
          /\ pc' = "exited"
          /\ exited' = TRUE
          /\ exitCode' = 1
     ELSE /\ pc' = "loadConfig"
          /\ UNCHANGED <<fatal, logFile, exited, exitCode>>
  /\ UNCHANGED <<platform, cwd, config, configFile, fs, mtime, requests, handlers, promise,
                 settled, childEvents, downloadedZip, archive, javaOut, started,
                 serverSpawned, dirsArg, loads>>

\* const config = loadConfig();
LoadConfig ==
  /\ pc = "loadConfig"
  /\ \E r \in {loadConfig(fs, configFile, logFile)} :
       /\ config' = r.config
       /\ configFile' = r.configFile
       /\ logFile' = r.logFile
  /\ pc' = "handlers"
  /\ UNCHANGED <<platform, cwd, DOWNLOADER_EXE, fs, mtime, requests, handlers, promise,
                 settled, childEvents, downloadedZip, archive, javaOut, started, fatal,
                 exited, exitCode, serverSpawned, dirsArg, loads>>

\* process.on("uncaughtException", ...); process.on("unhandledRejection", ...);
InstallHandlers ==
  /\ pc = "handlers"
  /\ handlers' = TRUE
  /\ pc' = "checkJava"
  /\ UNCHANGED <<platform, cwd, DOWNLOADER_EXE, config, logFile, configFile, fs, mtime,
                 requests, promise, settled, childEvents, downloadedZip, archive,
                 javaOut, started, fatal, exited, exitCode, serverSpawned, dirsArg,
                 loads>>

\* What every awaited step of main ends with: on success main goes on to `next`
\* with log `lfOk`; on a throw the catch block adds the error to the log `lfThrow`
\* written up to the throw, and exits with 1.
Finish(ok, msg, next, lfOk, lfThrow) ==
  /\ pc' = IF ok THEN next ELSE Raise(next)
  /\ fatal' = IF ok THEN fatal ELSE msg
  /\ logFile' = IF ok THEN lfOk ELSE error(fs, lfThrow, "FATAL ERROR")
  /\ exited' = (pc' = "exited")
  /\ exitCode' = IF pc' = "exited" THEN 1 ELSE exitCode

\* main starts: it logs its banner and awaits checkJava().
CheckJava ==
  /\ pc = "checkJava"
  /\ started' = Append(started, "checkJava")
  /\ \E o \in JavaOutputs :
       /\ javaOut' = o
       /\ LET r == checkJava(o.err, o.stdout, o.stderr)
              lf == log(fs, logFile, "=== HYTALE SERVER INSTALLER ===")
          IN Finish(r.ok, r.msg, After("checkJava", platform), log(fs, lf, "Java - OK"), lf)
  /\ UNCHANGED <<platform, cwd, DOWNLOADER_EXE, config, configFile, fs, mtime, requests,
                 handlers, promise, settled, childEvents, downloadedZip, archive,
                 serverSpawned, dirsArg, loads>>

\* await downloadFile(DOWNLOAD_URL, DOWNLOADER_ZIP): the write stream is opened on
\* the destination, then the request is issued.  `o` is how it goes:
\*   "ok"      status 200, the body is streamed to the file, which is then newer
\*             than anything a previous run left (time 1 against 0);
\*   "status"  a status other than 200;
\*   "net"     a transport error before the response;
\*   "stream"  the write stream cannot open the file: its 'error' event has no
\*             listener and reaches the uncaughtException handler;
\*   "body"    status 200, then the response or the write stream emits 'error'
\*             part-way: no listener, so the uncaughtException handler ends the
\*             run with the partial file on disk;
\*   "aborted" status 200, then the response breaks off without an 'error'
\*             event: 'finish' never comes, the promise never settles, and with
\*             nothing left to wait for the process ends silently with code 0.
DownloadFile ==
  /\ pc = "downloadFile"
  /\ started' = Append(started, "downloadFile")
  /\ requests' = requests + 1
  /\ \E o \in {"ok", "status", "net", "stream", "body", "aborted"} :
       LET lf == log(fs, logFile, "Downloading Hytale downloader...")
       IN /\ fs' = IF o = "stream" THEN fs
                   ELSE Put(fs, DOWNLOADER_ZIP,
                            IF o = "ok" THEN DownloaderContent ELSE <<"partial">>)
          /\ mtime' = IF o = "stream" THEN mtime
                      ELSE [n \in DOMAIN mtime \cup {"hytale-downloader.zip"} |->
                              IF n = "hytale-downloader.zip" THEN 1 ELSE mtime[n]]
          /\ CASE o \in {"stream", "body"} ->
                    /\ fatal' = IF o = "stream" THEN "write stream error"
                                ELSE "stream error during the download"
                    /\ logFile' = Uncaught(fs, lf, handlers)
                    /\ pc' = "exited"
                    /\ exited' = TRUE
                    /\ exitCode' = 1
               [] o = "aborted" ->
                    /\ fatal' = fatal
                    /\ logFile' = lf
                    /\ pc' = "exited"
                    /\ exited' = TRUE
                    /\ exitCode' = 0
               [] OTHER ->
                    Finish(o = "ok", "Download failed", After("downloadFile", platform),
                           lf, lf)
  /\ UNCHANGED <<platform, cwd, DOWNLOADER_EXE, config, configFile, handlers, promise,
                 settled, childEvents, downloadedZip, archive, javaOut, serverSpawned,
                 dirsArg, loads>>

\* await unzipAll(DOWNLOADER_ZIP, EXTRACT_DIR);
UnzipDownloader ==
  /\ pc = "unzipDownloader"
  /\ started' = Append(started, "unzipDownloader")
  /\ \E readable \in BOOLEAN,
        os \in {NoRefusal, Denied({EXTRACT_DIR \o <<"QUICKSTART.md">>})} :
       LET r == unzipAll(fs, DOWNLOADER_ZIP, EXTRACT_DIR, readable,
                         EntriesOf(fs[DOWNLOADER_ZIP], NoLayout), os)
           lf == log(fs, logFile, "Extracting Hytale downloader...")
       IN /\ fs' = r.fs
          /\ Finish(r.ok, "extraction failed",
                    After("unzipDownloader", platform), lf, lf)
  /\ UNCHANGED <<platform, cwd, DOWNLOADER_EXE, config, configFile, mtime, requests, handlers,
                 promise, settled, childEvents, downloadedZip, archive, javaOut,
                 serverSpawned, dirsArg, loads>>

\* if (platform === "linux") await fs.promises.chmod(exePath, 0o755);
Chmod ==
  /\ pc = "chmod"
  /\ started' = Append(started, "chmod")
  /\ \E permitted \in BOOLEAN :
       Finish(permitted /\ IsFile(fs, EXTRACT_DIR \o <<DOWNLOADER_EXE>>), "chmod failed",
              After("chmod", platform), log(fs, logFile, "Set Linux executable permissions"),
              logFile)
  /\ UNCHANGED <<platform, cwd, DOWNLOADER_EXE, config, configFile, fs, mtime, requests,
                 handlers, promise, settled, childEvents, downloadedZip, archive,
                 javaOut, serverSpawned, dirsArg, loads>>

\* runDownloader(), up to the spawn: config.downloaderArgs.split(" ") throws inside
\* the promise executor when the configured value is no string.
RunDownloader ==
  /\ pc = "runDownloader"
  /\ started' = Append(started, "runDownloader")
  /\ logFile' = log(fs, logFile, "Running Hytale downloader...")
  /\ promise' = IF config.downloaderArgs.t = "string" THEN "pending" ELSE "rejected"
  /\ settled' = IF promise' = "pending" THEN settled ELSE settled + 1
  /\ pc' = "awaitDownloader"
  /\ UNCHANGED <<platform, cwd, DOWNLOADER_EXE, config, configFile, fs, mtime, requests,
                 handlers, childEvents, downloadedZip, archive, javaOut, fatal, exited,
                 exitCode, serverSpawned, dirsArg, loads>>

\* The child emits 'error': it could not be spawned.
ChildError ==
  /\ pc = "awaitDownloader"
  /\ promise = "pending"
  /\ childEvents' = Append(childEvents, [type |-> "error", code |-> -1, signal |-> "none"])
  /\ promise' = OnError(promise)
  /\ settled' = IF promise' # promise THEN settled + 1 ELSE settled
  /\ UNCHANGED <<platform, cwd, pc, DOWNLOADER_EXE, config, logFile, configFile, fs, mtime,
                 requests, handlers, downloadedZip, archive, javaOut, started, fatal,
                 exited, exitCode, serverSpawned, dirsArg, loads>>

\* The child emits 'exit'.  While it ran it either wrote the server archive into
\* its working directory RUNTIME_DIR (modification time t) or wrote nothing.
ChildExit ==
  /\ pc = "awaitDownloader"
  /\ promise = "pending"
  /\ \E ev \in {[type |-> "exit", code |-> 0, signal |-> "none"],
                [type |-> "exit", code |-> 1, signal |-> "none"],
                [type |-> "exit", code |-> -1, signal |-> "SIGTERM"]}, wrote \in BOOLEAN, t \in 0..MaxTime :
       /\ childEvents' = Append(childEvents, ev)
       /\ promise' = OnExit(promise, ev.code, ev.signal)
       /\ fs' = IF wrote THEN Put(fs, SERVER_ZIP, <<"zip", "server">>) ELSE fs
       /\ mtime' = IF wrote
                   THEN [n \in DOMAIN mtime \cup {"server.zip"} |->
                           IF n = "server.zip" THEN t ELSE mtime[n]]
                   ELSE mtime
  /\ settled' = IF promise' # promise THEN settled + 1 ELSE settled
  /\ UNCHANGED <<platform, cwd, pc, DOWNLOADER_EXE, config, logFile, configFile, requests,
                 handlers, downloadedZip, archive, javaOut, started, fatal, exited,
                 exitCode, serverSpawned, dirsArg, loads>>

\* await runDownloader() returns or throws once the promise is settled.
AwaitDownloader ==
  /\ pc = "awaitDownloader"
  /\ promise # "pending"
  /\ Finish(promise = "resolved", "Downloader failed", After("runDownloader", platform),
            logFile, logFile)
  /\ UNCHANGED <<platform, cwd, DOWNLOADER_EXE, config, configFile, fs, mtime, requests,
                 handlers, promise, settled, childEvents, downloadedZip, archive,
                 javaOut, started, serverSpawned, dirsArg, loads>>

\* const downloadedZip = findNewestZip(RUNTIME_DIR);
FindNewestZip ==
  /\ pc = "findNewestZip"
  /\ started' = Append(started, "findNewestZip")
  /\ \E listing \in Perms(ListingNames(fs, RUNTIME_DIR)),
        os \in {NoRefusal, Denied({RUNTIME_DIR})} :
       LET r == findNewestZip(mtime, RUNTIME_DIR, listing, os)
           lf == log(fs, log(fs, logFile, "Detecting downloaded version..."),
                     "Searching for newest ZIP...")
       IN /\ downloadedZip' = r.path
          /\ Finish(r.ok, r.msg, After("findNewestZip", platform),
                    log(fs, lf, "Newest ZIP"), lf)
  /\ UNCHANGED <<platform, cwd, DOWNLOADER_EXE, config, configFile, fs, mtime, requests,
                 handlers, promise, settled, childEvents, archive, javaOut,
                 serverSpawned, dirsArg, loads>>

\* await unzipAll(downloadedZip, RUNTIME_DIR); `zip` says whether the file opens
\* as an archive and what the archive holds when it is not the downloader archive.
UnzipServer ==
  /\ pc = "unzipServer"
  /\ started' = Append(started, "unzipServer")
  /\ \E zip \in {[readable |-> FALSE, layout |-> NoLayout]} \cup
                 {[readable |-> TRUE, layout |-> l] :
                    l \in (IF fs[downloadedZip] = DownloaderContent THEN {NoLayout}
                           ELSE ServerArchives)},
        os \in {NoRefusal, Denied({ServerDir})} :
       \E entries \in {EntriesOf(fs[downloadedZip], zip.layout)},
          lf \in {log(fs, logFile, "Extracting Hytale server assets...")} :
         \E r \in {unzipAll(fs, downloadedZip, RUNTIME_DIR, zip.readable, entries, os)} :
         /\ fs' = r.fs
         /\ archive' = IF r.ok
                       THEN {entries[j].path :
                               j \in {i \in 1..Len(entries) : entries[i].type = "File"}}
                       ELSE archive
         /\ Finish(r.ok, "extraction failed", After("unzipServer", platform), lf, lf)
  /\ UNCHANGED <<platform, cwd, DOWNLOADER_EXE, config, configFile, mtime, requests, handlers,
                 promise, settled, childEvents, downloadedZip, javaOut, serverSpawned,
                 dirsArg, loads>>

\* await moveAll(path.join(RUNTIME_DIR, "Server"), RUNTIME_DIR); `ord` is the order
\* readdir lists names in.
RelocateServer ==
  /\ pc = "moveAll"
  /\ started' = Append(started, "moveAll")
  /\ \E ord \in Perms(Names), os \in {NoRefusal, Denied({ServerDir}), Stuck({ServerDir \o <<"a">>}),
                                      Denied({RUNTIME_DIR \o <<"a">>})} :
       \E r \in {moveAll(fs, ServerDir, RUNTIME_DIR, ord, os)},
          lf \in {log(fs, logFile, "Preparing assets...")} :
         /\ fs' = r.fs
         /\ Finish(r.ok, "relocation failed", After("moveAll", platform), lf, lf)
  /\ UNCHANGED <<platform, cwd, DOWNLOADER_EXE, config, configFile, mtime, requests, handlers,
                 promise, settled, childEvents, downloadedZip, archive, javaOut,
                 serverSpawned, dirsArg, loads>>

\* if (config.cleanUp) { deleteFiles([...]); deleteDirs([...]) } else ...; log("Done.")
Cleanup ==
  /\ pc = "cleanup"
  /\ started' = Append(started, "cleanup")
  /\ IF Truthy(config.cleanUp)
     THEN \E os \in {NoRefusal, Stuck({DOWNLOADER_ZIP}), Stuck({EXTRACT_DIR \o <<"QUICKSTART.md">>}),
                     Denied({ServerDir}), Denied({EXTRACT_DIR, ServerDir})} :
            \E a \in {deleteFiles(fs, log(fs, logFile, "Cleaning up..."), configFile,
                                 <<PathStr(platform, DOWNLOADER_ZIP),
                                   PathStr(platform, downloadedZip),
                                   RelStr(<<"QUICKSTART.md">>)>>, cwd, os, 1)} :
              \E r \in {deleteDirs(a.fs, a.logFile, a.configFile,
                                   <<PathStr(platform, EXTRACT_DIR),
                                     PathStr(platform, ServerDir)>>,
                                   platform, cwd, os, 1)} :
                /\ fs' = r.fs
                /\ configFile' = r.configFile
                /\ logFile' = log(r.fs, r.logFile, "Done.")
     ELSE /\ fs' = fs
          /\ configFile' = configFile
          /\ logFile' = log(fs, log(fs, logFile, "Cleanup skipped"), "Done.")
  /\ pc' = After("cleanup", platform)
  /\ UNCHANGED <<platform, cwd, DOWNLOADER_EXE, config, mtime, requests, handlers,
                 promise, settled, childEvents, downloadedZip, archive, javaOut, fatal,
                 exited, exitCode, serverSpawned, dirsArg, loads>>

\* A launcher that never takes the early exit.
StartNeverSkipped(cfg) == FALSE

\* if (!config.startServer)
StartSkipped(cfg) == ~Truthy(cfg.startServer)

\* await startServer(); then process.on("exit", ...).  The two split(" ") calls
\* throw when the configured value is no string.
StartServer ==
  /\ pc = "startServer"
  /\ started' = Append(started, "startServer")
  /\ IF StartSkipped(config)
     THEN /\ logFile' = log(fs, logFile, "Server start skipped. Exiting...")
          /\ pc' = "exited"
          /\ exited' = TRUE
          /\ exitCode' = 0
          /\ UNCHANGED <<fatal, serverSpawned>>
     ELSE IF config.javaArgs.t # "string" \/ config.hytaleArgs.t # "string"
     THEN /\ Finish(FALSE, "split is not a function", "serverRunning", logFile, logFile)
          /\ UNCHANGED serverSpawned
     ELSE /\ logFile' = log(fs, log(fs, logFile, "Starting server with:"), "java ...")
          /\ serverSpawned' = TRUE
          /\ pc' = "serverRunning"
          /\ UNCHANGED <<fatal, exited, exitCode>>
  /\ UNCHANGED <<platform, cwd, DOWNLOADER_EXE, config, configFile, fs, mtime, requests,
                 handlers, promise, settled, childEvents, downloadedZip, archive,
                 javaOut, dirsArg, loads>>

\* The server child emits 'exit'; nothing keeps the installer alive after it, so
\* the process 'exit' handler runs and the installer ends with code 0.
ServerExit ==
  /\ pc = "serverRunning"
  /\ logFile' = log(fs, log(fs, logFile, "Server exited with code"), "Exiting Installer...")
  /\ pc' = "exited"
  /\ exited' = TRUE
  /\ exitCode' = 0
  /\ UNCHANGED <<platform, cwd, DOWNLOADER_EXE, config, configFile, fs, mtime, requests,
                 handlers, promise, settled, childEvents, downloadedZip, archive,
                 javaOut, started, fatal, serverSpawned, dirsArg, loads>>

\* The server child emits 'error': logged, not fatal; the installer then ends.
ServerError ==
  /\ pc = "serverRunning"
  /\ logFile' = log(fs, error(fs, logFile, "Failed to start server"), "Exiting Installer...")
  /\ pc' = "exited"
  /\ exited' = TRUE
  /\ exitCode' = 0
  /\ UNCHANGED <<platform, cwd, DOWNLOADER_EXE, config, configFile, fs, mtime, requests,
                 handlers, promise, settled, childEvents, downloadedZip, archive,
                 javaOut, started, fatal, serverSpawned, dirsArg, loads>>

Next ==
  \/ ResetLog
  \/ ResolvePlatform
  \/ LoadConfig
  \/ InstallHandlers
  \/ CheckJava
  \/ DownloadFile
  \/ UnzipDownloader
  \/ Chmod
  \/ RunDownloader
  \/ ChildError
  \/ ChildExit
  \/ AwaitDownloader
  \/ FindNewestZip
  \/ UnzipServer
  \/ RelocateServer
  \/ Cleanup
  \/ StartServer
  \/ ServerExit
  \/ ServerError

Spec == Init /\ [][Next]_vars

(***************************************************************************)
(* loadConfig on its own: every configuration file of a bounded family,    *)
(* loaded up to MaxLoads times.                                            *)
(***************************************************************************)
Absent == [t |-> "absent", v |-> ""]
AllKeys == ConfigKeys \o <<"motd">>
KeySet(keys) == {keys[i] : i \in 1..Len(keys)}

\* The objects a configuration file may hold, from the values it may give each
\* key; Absent: the key is missing.
RECURSIVE ObjectsOver(_)
ObjectsOver(keys) ==
  IF keys = <<>> THEN {EmptyObj}
  ELSE {IF x = Absent THEN o ELSE Spread(o, Obj1(Head(keys), x)) :
          o \in ObjectsOver(Tail(keys)),
          x \in CASE Head(keys) = "startServer" ->
                     {Absent, JsBool(TRUE), JsBool(FALSE), JsStr("yes"), JsNum("0")}
                 [] Head(keys) = "cleanUp" -> {Absent, JsBool(TRUE), JsBool(FALSE)}
                 [] Head(keys) = "downloaderArgs" -> {Absent, JsStr("--patchline pre-release")}
                 [] Head(keys) = "javaArgs" -> {Absent, JsStr("-Xmx1G")}
                 [] Head(keys) = "hytaleArgs" -> {Absent, JsNull}
                 [] Head(keys) = "motd" -> {Absent, JsNum("1")}}
FileObjects == ObjectsOver(AllKeys)

FileText(obj) == JSONstringify(obj, SelectSeq(AllKeys, LAMBDA k : k \in DOMAIN obj))

\* A file cut short: the text without its last token.
Truncated(toks) == SubSeq(toks, 1, Len(toks) - 1)

ScalarTexts == {<<[k |-> "null", s |-> "null"]>>, <<NumTok("5")>>}

\* Texts that parse to something other than a flat object written by
\* JSON.stringify, each with the own properties of the value it denotes.
OddFiles ==
  {[toks |-> Member("startServer", <<NumTok("0.0")>>),
    props |-> Obj1("startServer", JsNum("0"))],
   [toks |-> Member("startServer", <<NumTok("1e-324")>>),
    props |-> Obj1("startServer", JsNum("0"))],
   [toks |-> Member("motd", <<NumTok("1.8e308")>>),
    props |-> Obj1("motd", JsNum("Infinity"))],
   [toks |-> Member("motd", <<NumTok("12345678901234567")>>),
    props |-> Obj1("motd", JsNum("12345678901234568"))],
   [toks |-> Member("motd", <<NumTok("9007199254740993")>>),
    props |-> Obj1("motd", JsNum("9007199254740992"))],
   [toks |-> Member("motd", <<NumTok("0.1000000000000000055511151231257827")>>),
    props |-> Obj1("motd", JsNum("0.1"))],
   [toks |-> Member("startServer", <<NumTok("-0")>>),
    props |-> Obj1("startServer", JsNum("-0"))],
   [toks |-> Member("startServer", <<NumTok("0e0")>>),
    props |-> Obj1("startServer", JsNum("0"))],
   [toks |-> Member("motd", <<NumTok("1.50")>>), props |-> Obj1("motd", JsNum("1.5"))],
   [toks |-> Member("motd", <<NumTok("25E-1")>>), props |-> Obj1("motd", JsNum("2.5"))],
   [toks |-> Member("motd", <<NumTok("1e21")>>), props |-> Obj1("motd", JsNum("1e+21"))],
   [toks |-> Member("motd", <<Punct("{"), Punct("}")>>),
    props |-> Obj1("motd", JsObj(EmptyObj))],
   [toks |-> Member("cleanUp", Member("startServer", <<[k |-> "boolean", s |-> "false"]>>)),
    props |-> Obj1("cleanUp", JsObj(Obj1("startServer", JsBool(FALSE))))],
   [toks |-> Member("motd", <<Punct("["), Punct("]")>>),
    props |-> Obj1("motd", JsArr(<<>>))],
   [toks |-> <<Punct("{"), StrTok("cleanUp"), Punct(":"), [k |-> "boolean", s |-> "true"], Punct(","),
               StrTok("cleanUp"), Punct(":"), [k |-> "boolean", s |-> "false"], Punct("}")>>,
    props |-> Obj1("cleanUp", JsBool(FALSE))],
   [toks |-> <<StrTok("yes")>>,
    props |-> [k \in {"0", "1", "2"} |->
                 JsStr(CASE k = "0" -> "y" [] k = "1" -> "e" [] k = "2" -> "s")]],
   [toks |-> <<StrTok("")>>, props |-> EmptyObj],
   [toks |-> <<Punct("["), Punct("]")>>, props |-> EmptyObj],
   [toks |-> <<Punct("["), [k |-> "boolean", s |-> "true"], Punct(","), NumTok("7"), Punct("]")>>,
    props |-> [k \in {"0", "1"} |-> IF k = "0" THEN JsBool(TRUE) ELSE JsNum("7")]]}

\* Texts that are no JSON.
BadTexts ==
  {Member("motd", <<NumTok("01")>>),
   Member("motd", <<NumTok("1.")>>),
   Member("motd", <<Punct("["), NumTok("1"), Punct(","), Punct("]")>>),
   <<Punct("{"), StrTok("motd"), Punct(":"), NumTok("1"), Punct(","), Punct("}")>>,
   <<Punct("{"), StrTok("motd"), NumTok("1"), Punct("}")>>,
   <<Punct("{"), Punct("}"), Punct("{"), Punct("}")>>,
   <<Punct("[")>>}

\* A file the operating system lets the installer read and write.
Plain(exists, toks) == [exists |-> exists, toks |-> toks, locked |-> FALSE]

InitConfig ==
  /\ platform = "linux"
  /\ cwd = RUNTIME_DIR
  /\ pc = "loadConfigTest"
  /\ DOWNLOADER_EXE = ExeFor("linux")
  /\ config = EmptyObj
  /\ configFile \in ({Plain(FALSE, <<>>), Plain(TRUE, <<>>),
                      [Plain(FALSE, <<>>) EXCEPT !.locked = TRUE],
                      [Plain(TRUE, FileText(Obj1("startServer", JsBool(FALSE)))) EXCEPT !.locked = TRUE]}
                     \cup {Plain(TRUE, FileText(o)) : o \in FileObjects}
                     \cup {Plain(TRUE, Truncated(FileText(o))) : o \in FileObjects}
                     \cup {Plain(TRUE, t) : t \in ScalarTexts \cup BadTexts}
                     \cup {Plain(TRUE, e.toks) : e \in OddFiles})
  /\ logFile \in {EmptyLog, [EmptyLog EXCEPT !.locked = TRUE]}
  /\ fs = FreshFs
  /\ mtime = [n \in {"Assets.zip"} |-> 0]
  /\ requests = 0
  /\ handlers = FALSE
  /\ promise = "none"
  /\ settled = 0
  /\ childEvents = <<>>
  /\ downloadedZip = <<>>
  /\ archive = {}
  /\ javaOut = Sample(FALSE, <<>>, <<>>, -1)
  /\ started = <<>>
  /\ fatal = ""
  /\ exited = FALSE
  /\ exitCode = 0
  /\ serverSpawned = FALSE
  /\ dirsArg = <<>>
  /\ loads = <<>>

\* One call of loadConfig(); `loads` keeps the file it found and what it returned.
LoadConfigCall ==
  /\ pc = "loadConfigTest"
  /\ Len(loads) < MaxLoads
  /\ \E r \in {loadConfig(fs, configFile, logFile)} :
       /\ config' = r.config
       /\ configFile' = r.configFile
       /\ logFile' = r.logFile
       /\ loads' = Append(loads, [file |-> configFile, config |-> r.config])
  /\ UNCHANGED <<platform, cwd, pc, DOWNLOADER_EXE, fs, mtime, requests, handlers,
                 promise, settled, childEvents, downloadedZip, archive, javaOut, started,
                 fatal, exited, exitCode, serverSpawned, dirsArg>>

NextConfig == LoadConfigCall

SpecConfig == InitConfig /\ [][NextConfig]_vars

(***************************************************************************)
(* deleteDirs on its own: every list of up to MaxDirs path strings, on a   *)
(* small directory tree, on both supported platforms.                      *)
(***************************************************************************)
TestFs ==
  [q \in {Root, RUNTIME_DIR, ServerDir, OtherDir, OtherDir \o <<"Server">>, <<"etc">>} |->
     DirMark]
  @@ (ServerDir \o <<"a">> :> <<"jar">>)
  @@ (RUNTIME_DIR \o <<"world">> :> <<"save">>)
  @@ (OtherDir \o <<"Server", "a">> :> <<"other jar">>)
  @@ (<<"etc", "hosts">> :> <<"hosts">>)

InitDeleteDirs ==
  /\ platform \in {"win32", "linux"}
  /\ cwd \in {RUNTIME_DIR, OtherDir}
  /\ pc = "deleteDirsTest"
  /\ DOWNLOADER_EXE = ExeFor(platform)
  /\ config = DEFAULT_CONFIG
  /\ configFile = Plain(TRUE, JSONstringify(DEFAULT_CONFIG, ConfigKeys))
  /\ logFile = EmptyLog
  /\ fs = TestFs
  /\ mtime = [n \in {"Assets.zip"} |-> 0]
  /\ requests = 0
  /\ handlers = TRUE
  /\ promise = "none"
  /\ settled = 0
  /\ childEvents = <<>>
  /\ downloadedZip = <<>>
  /\ archive = {}
  /\ javaOut = Sample(FALSE, <<>>, <<>>, -1)
  /\ started = <<>>
  /\ fatal = ""
  /\ exited = FALSE
  /\ exitCode = 0
  /\ serverSpawned = FALSE
  /\ dirsArg \in UNION {[1..n -> {NullStr, EmptyStr, SlashStr, CwdStr(platform, cwd),
                                  PathStr(platform, Root),
                                  [root |-> CwdStr(platform, cwd).root, comps |-> cwd, trail |-> TRUE],
                                  PathStr(platform, RUNTIME_DIR),
                                  PathStr(platform, ServerDir),
                                  RelStr(<<"Server">>),
                                  PathStr(platform, RUNTIME_DIR \o <<"world", "x">>),
                                  RelStr(<<"installer.log", "x">>),
                                  PathStr(platform, CONFIG_FILE \o <<"x">>),
                                  PathStr(platform, <<"etc">>)}] : n \in 1..MaxDirs}
  /\ loads = <<>>

\* One call of deleteDirs(dirsArg).
DeleteDirsCall ==
  /\ pc = "deleteDirsTest"
  /\ \E os \in {NoRefusal, Stuck({ServerDir \o <<"a">>}), Denied({ServerDir}),
                Stuck({<<"etc", "hosts">>}), Denied({<<"etc", "hosts">>})} :
       \E r \in {deleteDirs(fs, logFile, configFile, dirsArg, platform, cwd, os, 1)} :
         /\ fs' = r.fs
         /\ logFile' = r.logFile
         /\ configFile' = r.configFile
  /\ pc' = "deleteDirsDone"
  /\ UNCHANGED <<platform, cwd, DOWNLOADER_EXE, config, mtime, requests, handlers,
                 promise, settled, childEvents, downloadedZip, archive, javaOut, started,
                 fatal, exited, exitCode, serverSpawned, dirsArg, loads>>

NextDeleteDirs == DeleteDirsCall

SpecDeleteDirs == InitDeleteDirs /\ [][NextDeleteDirs]_vars

(***************************************************************************)
(* Properties.                                                             *)
(***************************************************************************)
Supported == {"win32", "linux"}
ExitZero == [type |-> "exit", code |-> 0, signal |-> "none"]
JavaErrors ==
  {"Java not installed or not accessible", "Cannot parse Java version"}
  \cup {"Java " \o NatStr(n) \o " was detected but 25+ is required" : n \in 0..24}

\* C1: the steps of main start in the fixed order (chmod on Linux only), each
\* after its predecessors succeeded: the started steps are always a prefix of
\* that order, and once a fatal error was raised no further step starts and no
\* server process is spawned.
C1_StepsInOrder ==
  /\ [](IsPrefix(started, StepOrder(platform)) /\ (fatal # "" => ~serverSpawned))
  /\ [][fatal # "" => started' = started /\ ~serverSpawned']_vars

\* A run that failed at its third step or later.
C1_Witness == fatal # "" /\ exited /\ Len(started) >= 3

\* C2: every fatal error, whatever step raises it, is in the log as an ERROR
\* entry and ends the process with exit code 1; the process ends with code 0
\* only when every step up to the launch of the server was run.
C2_FatalLoggedExit1 ==
  /\ fatal # "" => exited /\ exitCode = 1 /\ HasError(logFile)
  /\ (exited /\ exitCode = 0) => Contains(started, "startServer")

\* C3 as claimed: win32 and linux resolve to their executable names, and on any
\* other platform nothing is created, truncated or written and no request is
\* issued before the unsupported-platform error is raised.
C3_NoEffectBeforeError ==
  /\ [](pc \notin {"resetLog", "platform"} =>
          /\ platform = "win32" => DOWNLOADER_EXE = "hytale-downloader-windows-amd64.exe"
          /\ platform = "linux" => DOWNLOADER_EXE = "hytale-downloader-linux-amd64"
          /\ platform \notin Supported => fatal = "Unsupported OS")
  /\ [][platform \notin Supported /\ fatal = ""
          => UNCHANGED <<logFile, configFile, fs, mtime, requests>>]_vars

\* C3, amended: win32 and linux resolve to their executable names; on any other
\* platform the unsupported-platform error ends the run with no request issued,
\* no process spawned, and no file created or written other than installer.log,
\* which the module resets (when it can be written) before it looks at the
\* platform.
C3_OnlyLogResetBeforeError ==
  /\ [](pc \notin {"resetLog", "platform"} =>
          /\ platform = "win32" => DOWNLOADER_EXE = "hytale-downloader-windows-amd64.exe"
          /\ platform = "linux" => DOWNLOADER_EXE = "hytale-downloader-linux-amd64"
          /\ platform \notin Supported =>
               /\ fatal = "Unsupported OS" /\ exited /\ exitCode = 1
               /\ requests = 0 /\ promise = "none" /\ ~serverSpawned
               /\ ~logFile.locked => logFile.exists /\ logFile.lines = <<>>)
  /\ [][platform \notin Supported =>
          /\ UNCHANGED <<configFile, fs, mtime, requests>>
          /\ logFile'.lines \in {logFile.lines, <<>>}]_vars

\* An unsupported platform after its error.
C3_Witness == platform = "darwin" /\ fatal = "Unsupported OS" /\ exited

\* C4: when the downloader left no server archive in RUNTIME_DIR the locate step
\* fails with "No downloaded ZIP found" and nothing is extracted; and the zip the
\* locate step returns has the greatest modification time of the zips there.
C4_LocateNeedsServerArchive ==
  /\ (Contains(started, "findNewestZip") /\ ~Contains(started, "cleanup")
        /\ ~Exists(fs, SERVER_ZIP))
       => fatal = "No downloaded ZIP found" /\ downloadedZip = <<>> /\ archive = {}
  /\ pc = "unzipServer" =>
       \A n \in ListingNames(fs, RUNTIME_DIR) :
          EndsWithZip(n) => mtime[downloadedZip[Len(downloadedZip)]] >= mtime[n]

\* C5: with startServer=false, once the launch step is reached the installer has
\* logged "Server start skipped" after cleanup's "Done." (on the console, and in
\* installer.log when that can be written), has exited with code 0, and no
\* server process was ever spawned.
C5_SkipStart ==
  /\ ("startServer" \in DOMAIN config /\ config.startServer = JsBool(FALSE))
       => ~serverSpawned
  /\ (Contains(started, "startServer") /\ config.startServer = JsBool(FALSE)) =>
       /\ exited /\ exitCode = 0 /\ fatal = ""
       /\ Contains(started, "cleanup")
       /\ Len(Messages(logFile)) >= 2
       /\ Messages(logFile)[Len(Messages(logFile))] = "Server start skipped. Exiting..."
       /\ Messages(logFile)[Len(Messages(logFile)) - 1] = "Done."
       /\ Printed(logFile, "Cleaning up...") \/ Printed(logFile, "Cleanup skipped")
       /\ ~logFile.locked =>
            /\ Len(logFile.lines) >= 2
            /\ logFile.lines[Len(logFile.lines)].msg = "Server start skipped. Exiting..."
            /\ logFile.lines[Len(logFile.lines) - 1].msg = "Done."
            /\ Logged(logFile, "Cleaning up...") \/ Logged(logFile, "Cleanup skipped")

\* The launch step reached with startServer=false.
C5_Witness ==
  Contains(started, "startServer") /\ config.startServer = JsBool(FALSE) /\ exited

\* C7: the promise of runDownloader is resolved only by an exit with code 0 and
\* no signal; any other exit and a spawn error reject it; it is settled at most
\* once; and the locate step starts only after it was resolved.
C7_DownloaderOutcome ==
  /\ promise = "resolved" => childEvents = <<ExitZero>>
  /\ (childEvents # <<>> /\ childEvents # <<ExitZero>>) => promise = "rejected"
  /\ settled <= 1
  /\ promise \in {"resolved", "rejected"} => settled = 1
  /\ Contains(started, "findNewestZip") => promise = "resolved"

\* The locate step started after a successful downloader run.
C7_Witness == Contains(started, "findNewestZip") /\ promise = "resolved"

\* C8: a download request is issued only after checkJava accepted a major version
\* of at least 25; an output that cannot be obtained, that states no version in
\* the form version "<digits>, or that states a version below 25 (17, say) is a
\* fatal error after which no download starts; 30 is accepted.
C8_JavaBeforeDownload ==
  /\ requests > 0 => Contains(started, "checkJava") /\ javaOut.major >= 25
  /\ (Contains(started, "checkJava") /\ javaOut.major < 25) =>
       /\ fatal \in JavaErrors /\ exited /\ exitCode = 1
       /\ requests = 0 /\ started = <<"checkJava">>
  /\ (Contains(started, "checkJava") /\ javaOut.err /\ javaOut.stderr = <<>>) =>
       fatal = "Java not installed or not accessible"
  /\ (Contains(started, "checkJava") /\ javaOut.major = -1
        /\ ~(javaOut.err /\ javaOut.stderr = <<>>)) =>
       fatal = "Cannot parse Java version"
  /\ javaOut.major \in 0..24 =>
       fatal = "Java " \o NatStr(javaOut.major) \o " was detected but 25+ is required"
  /\ (started = <<"checkJava">> /\ javaOut.major >= 25) =>
       fatal = "" /\ pc = "downloadFile"

\* Java 17 rejected before any download.
C8_Witness == javaOut.major = 17 /\ exited /\ requests = 0

\* C10: after relocation and cleanup (cleanUp=true) completed, every file the
\* extracted archive placed under Server/ is in RUNTIME_DIR at its path relative
\* to Server/.
C10_RelocatedFilesKept ==
  (Contains(started, "cleanup") /\ fatal = "" /\ Truthy(config.cleanUp)) =>
    \A p \in archive :
       (Len(p) > 1 /\ p[1] = "Server") => IsFile(fs, RUNTIME_DIR \o Tail(p))

\* What one load must return for the file it found, and what it must leave behind;
\* `after` is the file after the load.  `exact` says whether the result may hold
\* no field besides the five of the configuration.
LoadAsDocumented(L, after, exact) ==
  /\ ~L.file.exists =>
       /\ L.config = DEFAULT_CONFIG
       /\ after = IF L.file.locked THEN L.file ELSE Plain(TRUE, FileText(DEFAULT_CONFIG))
  /\ L.file.exists => after = L.file
  /\ L.file.locked => L.config = DEFAULT_CONFIG
  /\ \A obj \in FileObjects :
       /\ (L.file = Plain(TRUE, FileText(obj))) =>
            /\ \A k \in KeySet(ConfigKeys) :
                 L.config[k] = IF k \in DOMAIN obj THEN obj[k] ELSE DEFAULT_CONFIG[k]
            /\ IF exact THEN DOMAIN L.config = KeySet(ConfigKeys)
               ELSE DOMAIN L.config = KeySet(ConfigKeys) \cup DOMAIN obj
       /\ (L.file.exists /\ L.file.toks = Truncated(FileText(obj))) =>
            L.config = DEFAULT_CONFIG
  /\ \A e \in OddFiles :
       (L.file = Plain(TRUE, e.toks)) =>
          /\ \A k \in KeySet(ConfigKeys) :
               L.config[k] = IF k \in DOMAIN e.props THEN e.props[k] ELSE DEFAULT_CONFIG[k]
          /\ IF exact THEN DOMAIN L.config = KeySet(ConfigKeys)
             ELSE /\ DOMAIN L.config = KeySet(ConfigKeys) \cup DOMAIN e.props
                  /\ \A k \in DOMAIN e.props : L.config[k] = e.props[k]
  /\ (L.file.exists /\ (L.file.toks = <<>> \/ L.file.toks \in ScalarTexts \cup BadTexts)) =>
       L.config = DEFAULT_CONFIG

FileAfter(i) == IF i < Len(loads) THEN loads[i + 1].file ELSE configFile

\* C9 as claimed: each of the five fields is the file's value when the file has
\* the key and the default otherwise, and the result has no other field; a missing
\* file is written with the defaults; a file that does not parse gives the
\* defaults and is left as it is; a second load returns what the first returned.
C9_NoOtherFields ==
  \A i \in 1..Len(loads) :
    /\ LoadAsDocumented(loads[i], FileAfter(i), TRUE)
    /\ i > 1 => loads[i].config = loads[i - 1].config

\* C9, amended: as claimed, except that the keys of the file that are not
\* configuration fields are carried over into the result (its fields are the five
\* and every other key of the file's object).
C9_UnknownFieldsKept ==
  \A i \in 1..Len(loads) :
    /\ LoadAsDocumented(loads[i], FileAfter(i), FALSE)
    /\ i > 1 => loads[i].config = loads[i - 1].config

\* Two loads of a file that overrides startServer and has a key of its own.
C9_Witness ==
  /\ Len(loads) = 2
  /\ loads[1].file.exists
  /\ "motd" \in DOMAIN loads[1].config
  /\ loads[1].config.startServer = JsBool(FALSE)
  /\ loads[1].config.cleanUp = JsBool(TRUE)

\* A path string that is empty or null, or that names the root or the cwd.
Protected(d) == Falsy(d) \/ Resolve(d, cwd) = Root \/ Resolve(d, cwd) = cwd

\* C6: deleteDirs removes nothing for a path that is empty/null, the filesystem
\* root or the current working directory.  Stated for the lists made of such
\* paths only, where no other element can account for a removal: after the call
\* the whole tree, installer.log and installer-config.json are as they were.
C6_GuardedPathsIntact ==
  (pc = "deleteDirsDone" /\ \A i \in 1..Len(dirsArg) : Protected(dirsArg[i]))
    => fs = TestFs /\ logFile.exists /\ configFile.exists
====
